---- MODULE Spec2Model ----
(***************************************************************************)
(* The secure remote code-execution bridge of evo_ai:                      *)
(* VertexAiCodeExecutor (constructor, validate_code_safety,                *)
(* execute_python_code) and the facade execute_code, of                    *)
(* src/src/evo_ai/code_execution_agent.py.                                 *)
(*                                                                         *)
(* A Python str is a sequence of atoms.  An atom is one character, or a    *)
(* fixed message literal of the program kept whole (no operation of the    *)
(* program looks inside its own messages).  Python's None and the optional *)
(* fields of the SDK objects are <<>> (None) or <<v>> (the value v).       *)
(***************************************************************************)
EXTENDS Integers, Sequences, FiniteSets, TLC

-----------------------------------------------------------------------------
(* Bounds of the model *)

\* a submitted code string is the concatenation of at most MaxChunks fragments
MaxChunks == 2

\* a response holds at most MaxParts parts, over all its candidates
MaxParts == 2

\* a response holds at most MaxCandidates candidates
MaxCandidates == 2

-----------------------------------------------------------------------------
(* Python values *)

None == <<>>

Some(v) == <<v>>

\* Python truthiness of an optional str: None and "" are falsy
Truthy(o) == o # None /\ o[1] # <<>>

UpperCase == <<"A", "B", "C", "D", "E", "F", "G", "H", "I", "J", "K", "L", "M",
  "N", "O", "P", "Q", "R", "S", "T", "U", "V", "W", "X", "Y", "Z">>

LowerCase == <<"a", "b", "c", "d", "e", "f", "g", "h", "i", "j", "k", "l", "m",
  "n", "o", "p", "q", "r", "s", "t", "u", "v", "w", "x", "y", "z">>

LowerChar(c) ==
  IF \E i \in 1..Len(UpperCase) : UpperCase[i] = c
  THEN LowerCase[CHOOSE i \in 1..Len(UpperCase) : UpperCase[i] = c]
  ELSE c

\* str.lower()
lower(s) == [i \in 1..Len(s) |-> LowerChar(s[i])]

\* `p in s` of two str
contains(s, p) ==
  \E i \in 0..(Len(s) - Len(p)) : SubSeq(s, i + 1, i + Len(p)) = p

\* str.endswith(suffix)
endswith(s, suffix) ==
  /\ Len(suffix) <= Len(s)
  /\ SubSeq(s, Len(s) - Len(suffix) + 1, Len(s)) = suffix

Whitespace == {" ", "\n", "\t", "\r"}

\* str.rstrip() in its place
strip_right(s) ==
  LET keep == {i \in 1..Len(s) : s[i] \notin Whitespace}
  IN IF keep = {} THEN <<>>
     ELSE SubSeq(s, 1, CHOOSE i \in keep : \A j \in keep : j <= i)

\* str.strip()
strip(s) ==
  LET keep == {i \in 1..Len(s) : s[i] \notin Whitespace}
  IN IF keep = {} THEN <<>>
     ELSE SubSeq(s, CHOOSE i \in keep : \A j \in keep : i <= j,
                    CHOOSE i \in keep : \A j \in keep : j <= i)

\* str(x) of an outcome tag: an enum member prints as "Outcome.<NAME>",
\* None prints as "None"
str(outcome) ==
  IF outcome = None THEN <<"N", "o", "n", "e">>
  ELSE <<"O", "u", "t", "c", "o", "m", "e", ".">> \o outcome[1]

-----------------------------------------------------------------------------
(* validate_code_safety *)

dangerous_patterns == <<
  <<"_", "_", "i", "m", "p", "o", "r", "t", "_", "_">>,
  <<"c", "o", "m", "p", "i", "l", "e", "(">>,
  <<"e", "x", "e", "c", "(">>,
  <<"e", "v", "a", "l", "(">> >>

RECURSIVE ScanPatterns(_, _)
\* the for loop of validate_code_safety from pattern number i on
ScanPatterns(code_lower, i) ==
  IF i > Len(dangerous_patterns)
  THEN [is_safe |-> TRUE, reason |-> <<"Code appears safe for execution">>]
  ELSE IF contains(code_lower, dangerous_patterns[i])
       THEN [is_safe |-> FALSE,
             reason |-> <<"Potentially unsafe operation detected: ">>
                        \o dangerous_patterns[i]]
       ELSE ScanPatterns(code_lower, i + 1)

\* the same reporting the last pattern of the list that matches
validate_code_safety_reversed(code) ==
  LET matches == {i \in 1..Len(dangerous_patterns) :
                    contains(lower(code), dangerous_patterns[i])}
  IN IF matches = {}
     THEN [is_safe |-> TRUE, reason |-> <<"Code appears safe for execution">>]
     ELSE [is_safe |-> FALSE,
           reason |-> <<"Potentially unsafe operation detected: ">>
                      \o dangerous_patterns[CHOOSE i \in matches :
                                              \A j \in matches : j <= i]]

\* the same without code.lower()
validate_code_safety_cased(code) == ScanPatterns(code, 1)

validate_code_safety(code) == ScanPatterns(lower(code), 1)

-----------------------------------------------------------------------------
(* The module's state *)

VARIABLES
  VERTEX_AI_AVAILABLE,  \* whether `from google import genai` succeeded
  PROJECT_ID,           \* os.getenv("PROJECT_ID", "your-project-id") at import
  LOCATION,             \* os.getenv("LOCATION", "us-central1") at import
  environ,              \* os.environ, the three keys the constructor sets
  pc,                   \* where the caller of execute_code is
  code,                 \* the code string of the current call
  executor,             \* the VertexAiCodeExecutor of the current call
  verdict,              \* (is_safe, safety_reason) of the current call
  requests,             \* the generate_content submissions of the current call
  remote,               \* what the remote did with the submission
  result,               \* the record execute_code returned
  escaped,              \* the exception that left execute_code, if any
  start_time,           \* start_time of the execute_python_code in progress
  previous,             \* what a caller kept of an earlier call, to compare
  instances,            \* the executors that threads construct directly
  chart                 \* what a generate_chart that came to its end did

vars == <<VERTEX_AI_AVAILABLE, PROJECT_ID, LOCATION, environ, pc, code,
          executor, verdict, requests, remote, result, escaped, start_time,
          previous, instances, chart>>

-----------------------------------------------------------------------------
(* VertexAiCodeExecutor.__init__ *)

\* `a or b` of two optional str
Or(a, b) == IF Truthy(a) THEN a ELSE b

\* a constructor that takes a GOOGLE_GENAI_USE_VERTEXAI already set for a
\* finished initialization and leaves the object as it is
VertexAiCodeExecutor_once(project_id, location, env, client_raises) ==
  LET self_project_id == IF Truthy(project_id) THEN project_id
                         ELSE Some(PROJECT_ID)
      self_location == IF location # Some(<<"us-central1">>) THEN location
                       ELSE Some(LOCATION)
      self == [project_id |-> self_project_id, location |-> self_location,
               initialized |-> FALSE]
      env1 == [env EXCEPT !.GOOGLE_CLOUD_PROJECT = self_project_id]
      env3 == [env1 EXCEPT !.GOOGLE_CLOUD_LOCATION = self_location,
                           !.GOOGLE_GENAI_USE_VERTEXAI = Some(<<"True">>)]
  IN IF ~VERTEX_AI_AVAILABLE \/ env.GOOGLE_GENAI_USE_VERTEXAI # None
       THEN [self |-> self, environ |-> env]
     ELSE IF self_project_id = None THEN [self |-> self, environ |-> env]
     ELSE IF self_location = None THEN [self |-> self, environ |-> env1]
     ELSE IF client_raises THEN [self |-> self, environ |-> env3]
     ELSE [self |-> [self EXCEPT !.initialized = TRUE], environ |-> env3]

\* a constructor that takes a GOOGLE_GENAI_USE_VERTEXAI already set for a
\* client that can be built, and does not try
VertexAiCodeExecutor_trusting(project_id, location, env, client_raises) ==
  LET self_project_id == IF Truthy(project_id) THEN project_id
                         ELSE Some(PROJECT_ID)
      self_location == IF location # Some(<<"us-central1">>) THEN location
                       ELSE Some(LOCATION)
      self == [project_id |-> self_project_id, location |-> self_location,
               initialized |-> FALSE]
      env1 == [env EXCEPT !.GOOGLE_CLOUD_PROJECT = self_project_id]
      env3 == [env1 EXCEPT !.GOOGLE_CLOUD_LOCATION = self_location,
                           !.GOOGLE_GENAI_USE_VERTEXAI = Some(<<"True">>)]
  IN IF ~VERTEX_AI_AVAILABLE THEN [self |-> self, environ |-> env]
     ELSE IF self_project_id = None THEN [self |-> self, environ |-> env]
     ELSE IF self_location = None THEN [self |-> self, environ |-> env1]
     ELSE IF client_raises /\ env.GOOGLE_GENAI_USE_VERTEXAI = None
     THEN [self |-> self, environ |-> env3]
     ELSE [self |-> [self EXCEPT !.initialized = TRUE], environ |-> env3]

\* The constructor run on os.environ = env.  client_raises: genai.Client()
\* raises (no credentials, no project).  Gives the object and os.environ after.
VertexAiCodeExecutor(project_id, location, env, client_raises) ==
  LET self_project_id == Or(project_id, Some(PROJECT_ID))
      self_location == IF location # Some(<<"us-central1">>) THEN location
                       ELSE Some(LOCATION)
      self == [project_id |-> self_project_id, location |-> self_location,
               initialized |-> FALSE]
      env1 == [env EXCEPT !.GOOGLE_CLOUD_PROJECT = self_project_id]
      env3 == [env1 EXCEPT !.GOOGLE_CLOUD_LOCATION = self_location,
                           !.GOOGLE_GENAI_USE_VERTEXAI = Some(<<"True">>)]
  IN IF ~VERTEX_AI_AVAILABLE THEN [self |-> self, environ |-> env]
     \* os.environ[...] = None raises TypeError, caught at line 117
     ELSE IF self_project_id = None THEN [self |-> self, environ |-> env]
     ELSE IF self_location = None THEN [self |-> self, environ |-> env1]
     ELSE IF client_raises THEN [self |-> self, environ |-> env3]
     ELSE [self |-> [self EXCEPT !.initialized = TRUE], environ |-> env3]

-----------------------------------------------------------------------------
(* execute_python_code *)

\* what a step of the program does: return a value or raise an exception
Return(v) == [raises |-> FALSE, value |-> v]

Raise(e) == [raises |-> TRUE, value |-> e]

NotInitializedResult ==
  [success |-> FALSE,
   error |-> <<"VertexAI Code Executor not properly initialized. Please install google-cloud-aiplatform and configure authentication.">>,
   output |-> <<>>,
   execution_time |-> 0]

\* the request of self.client.models.generate_content; ~~~ stands for the
\* fence of three backquotes
GenerateContentRequest(c) ==
  [model |-> "gemini-2.0-flash-001",
   contents |-> <<"Please execute the following Python code and return the results:\n\n~~~python\n">>
                \o c
                \o <<"\n~~~\n\nMake sure to execute the code and show the output.">>,
   tools |-> "code_execution",
   temperature |-> 0]

EmptyWalk == [output_text |-> <<>>, execution_results |-> <<>>,
              code_executed |-> <<>>]

\* the same with an outcome's output added to the text where it is met
VisitPart_inline(part, acc) ==
  IF Truthy(part.text)
  THEN [acc EXCEPT !.output_text = @ \o part.text[1] \o <<"\n">>]
  ELSE IF part.executable_code # None
  THEN [acc EXCEPT !.code_executed =
          Append(@, [language |-> part.executable_code[1].language,
                     code |-> part.executable_code[1].code])]
  ELSE IF part.code_execution_result # None
  THEN [acc EXCEPT
          !.output_text =
            IF Truthy(part.code_execution_result[1].output)
            THEN @ \o part.code_execution_result[1].output[1] \o <<"\n">>
            ELSE @,
          !.execution_results =
            Append(@, [outcome |-> part.code_execution_result[1].outcome,
                       output |-> None])]
  ELSE acc

\* the same with three independent tests for the elif chain
VisitPart_independent(part, acc) ==
  LET texted ==
        IF Truthy(part.text)
        THEN [acc EXCEPT !.output_text = @ \o part.text[1] \o <<"\n">>]
        ELSE acc
      coded ==
        IF part.executable_code # None
        THEN [texted EXCEPT !.code_executed =
                Append(@, [language |-> part.executable_code[1].language,
                           code |-> part.executable_code[1].code])]
        ELSE texted
  IN IF part.code_execution_result # None
     THEN [coded EXCEPT !.execution_results =
             Append(@, [outcome |-> part.code_execution_result[1].outcome,
                        output |-> part.code_execution_result[1].output])]
     ELSE coded

\* the if/elif chain on one part
VisitPart(part, acc) ==
  IF Truthy(part.text)
  THEN [acc EXCEPT !.output_text = @ \o part.text[1] \o <<"\n">>]
  ELSE IF part.executable_code # None
  THEN [acc EXCEPT !.code_executed =
          Append(@, [language |-> part.executable_code[1].language,
                     code |-> part.executable_code[1].code])]
  ELSE IF part.code_execution_result # None
  THEN [acc EXCEPT !.execution_results =
          Append(@, [outcome |-> part.code_execution_result[1].outcome,
                     output |-> part.code_execution_result[1].output])]
  ELSE acc

RECURSIVE WalkParts(_, _, _)
\* for part in candidate.content.parts, from part number i on
WalkParts(parts, i, acc) ==
  IF i > Len(parts) THEN acc
  ELSE WalkParts(parts, i + 1, VisitPart(parts[i], acc))

\* the same for response.candidates[0] alone
WalkCandidates_first(candidates, j, acc) ==
  IF candidates = <<>> THEN Return(acc)
  ELSE IF candidates[1].content = None
  THEN Raise(<<"'NoneType' object has no attribute 'parts'">>)
  ELSE IF candidates[1].content[1].parts = None
  THEN Raise(<<"'NoneType' object is not iterable">>)
  ELSE Return(WalkParts(candidates[1].content[1].parts[1], 1, acc))

RECURSIVE WalkCandidates(_, _, _)
\* for candidate in response.candidates, from candidate number j on
WalkCandidates(candidates, j, acc) ==
  IF j > Len(candidates) THEN Return(acc)
  ELSE IF candidates[j].content = None
  THEN Raise(<<"'NoneType' object has no attribute 'parts'">>)
  ELSE IF candidates[j].content[1].parts = None
  THEN Raise(<<"'NoneType' object is not iterable">>)
  ELSE WalkCandidates(candidates, j + 1,
                      WalkParts(candidates[j].content[1].parts[1], 1, acc))

\* the same taking candidates = None for an empty list
WalkResponse_tolerant(response) ==
  IF response.candidates = None
  THEN Return(EmptyWalk)
  ELSE WalkCandidates(response.candidates[1], 1, EmptyWalk)

\* lines 168-185
WalkResponse(response) ==
  IF response.candidates = None
  THEN Raise(<<"'NoneType' object is not iterable">>)
  ELSE WalkCandidates(response.candidates[1], 1, EmptyWalk)

RECURSIVE AppendOutputs(_, _, _)
\* lines 188-192, from result number i on
AppendOutputs(combined_output, execution_results, i) ==
  IF i > Len(execution_results) THEN combined_output
  ELSE AppendOutputs(
         IF Truthy(execution_results[i].output)
         THEN combined_output \o execution_results[i].output[1] \o <<"\n">>
         ELSE combined_output,
         execution_results, i + 1)

error_indicators == {
  <<"e", "r", "r", "o", "r", ":">>,
  <<"e", "x", "c", "e", "p", "t", "i", "o", "n", ":">>,
  <<"t", "r", "a", "c", "e", "b", "a", "c", "k">>,
  <<"f", "a", "i", "l", "e", "d">>}

OUTCOME_OK == <<"O", "U", "T", "C", "O", "M", "E", "_", "O", "K">>

\* the same with success for a response that holds nothing
Success_default_true(output_text, combined_output, execution_results) ==
  IF execution_results # <<>>
  THEN \E i \in 1..Len(execution_results) :
         endswith(str(execution_results[i].outcome), OUTCOME_OK)
  ELSE IF output_text # <<>> \/ combined_output # <<>>
  THEN ~ \E indicator \in error_indicators :
           contains(lower(combined_output), indicator)
  ELSE TRUE

\* the same with all() for any()
Success_all(output_text, combined_output, execution_results) ==
  IF execution_results # <<>>
  THEN \A i \in 1..Len(execution_results) :
         endswith(str(execution_results[i].outcome), OUTCOME_OK)
  ELSE IF output_text # <<>> \/ combined_output # <<>>
  THEN ~ \E indicator \in error_indicators :
           contains(lower(combined_output), indicator)
  ELSE FALSE

\* the same with the two branches tried in the other order
Success_text_first(output_text, combined_output, execution_results) ==
  IF output_text # <<>>
  THEN ~ \E indicator \in error_indicators :
           contains(lower(combined_output), indicator)
  ELSE IF execution_results # <<>>
  THEN \E i \in 1..Len(execution_results) :
         endswith(str(execution_results[i].outcome), OUTCOME_OK)
  ELSE FALSE

\* the same without the branch for plain text
Success_outcomes_only(output_text, combined_output, execution_results) ==
  IF execution_results # <<>>
  THEN \E i \in 1..Len(execution_results) :
         endswith(str(execution_results[i].outcome), OUTCOME_OK)
  ELSE FALSE

\* the same without combined_output.lower()
Success_cased(output_text, combined_output, execution_results) ==
  IF execution_results # <<>>
  THEN \E i \in 1..Len(execution_results) :
         endswith(str(execution_results[i].outcome), OUTCOME_OK)
  ELSE IF output_text # <<>> \/ combined_output # <<>>
  THEN ~ \E indicator \in error_indicators :
           contains(combined_output, indicator)
  ELSE FALSE

\* the same testing the stripped output for any output at all
Success_stripped(output_text, combined_output, execution_results) ==
  IF execution_results # <<>>
  THEN \E i \in 1..Len(execution_results) :
         endswith(str(execution_results[i].outcome), OUTCOME_OK)
  ELSE IF strip(combined_output) # <<>>
  THEN ~ \E indicator \in error_indicators :
           contains(lower(combined_output), indicator)
  ELSE FALSE

\* lines 198-211
Success(output_text, combined_output, execution_results) ==
  IF execution_results # <<>>
  THEN \E i \in 1..Len(execution_results) :
         endswith(str(execution_results[i].outcome), OUTCOME_OK)
  ELSE IF output_text # <<>> \/ combined_output # <<>>
  THEN ~ \E indicator \in error_indicators :
           contains(lower(combined_output), indicator)
  ELSE FALSE

\* the same with the test inverted
ErrorText_inverted(success) ==
  IF success THEN <<"Code execution failed or produced errors">> ELSE <<>>

\* line 215
ErrorText(success) ==
  IF success THEN <<>> ELSE <<"Code execution failed or produced errors">>

\* the same with the output cleared when success is false
ClassifyResponse_cleared(c, response, execution_time) ==
  LET walk == WalkResponse(response) IN
  IF walk.raises THEN walk
  ELSE
    LET output_text == walk.value.output_text
        execution_results == walk.value.execution_results
        combined_output == AppendOutputs(output_text, execution_results, 1)
        success == Success(output_text, combined_output, execution_results)
    IN Return([success |-> success,
               error |-> ErrorText(success),
               output |-> IF success THEN strip(combined_output) ELSE <<>>,
               execution_time |-> execution_time,
               code_executed |-> c,
               generated_code |-> walk.value.code_executed,
               execution_results |-> execution_results])

\* lines 165-221: the rest of the try block once generate_content returned
ClassifyResponse(c, response, execution_time) ==
  LET walk == WalkResponse(response) IN
  IF walk.raises THEN walk
  ELSE
    LET output_text == walk.value.output_text
        execution_results == walk.value.execution_results
        combined_output == AppendOutputs(output_text, execution_results, 1)
        success == Success(output_text, combined_output, execution_results)
    IN Return([success |-> success,
               error |-> ErrorText(success),
               output |-> strip(combined_output),
               execution_time |-> execution_time,
               code_executed |-> c,
               generated_code |-> walk.value.code_executed,
               execution_results |-> execution_results])

\* the same without the handler: the exception goes on to the caller
ExceptException_absent(outcome, c, execution_time) == outcome

\* the same with the bare str(e) as the error
ExceptException_bare(outcome, c, execution_time) ==
  IF outcome.raises
  THEN Return([success |-> FALSE,
               error |-> outcome.value,
               output |-> <<>>,
               execution_time |-> execution_time,
               code_executed |-> c])
  ELSE outcome

\* lines 223-234: except Exception as e, on what the try block did
ExceptException(outcome, c, execution_time) ==
  IF outcome.raises
  THEN Return([success |-> FALSE,
               error |-> <<"Code execution failed: ">> \o outcome.value,
               output |-> <<>>,
               execution_time |-> execution_time,
               code_executed |-> c])
  ELSE outcome

\* lines 283-290 of execute_code
BlockedResult(safety_reason) ==
  [success |-> FALSE,
   error |-> <<"Code execution blocked for safety: ">> \o safety_reason,
   output |-> <<>>,
   execution_time |-> 0]

-----------------------------------------------------------------------------
(* execute_code *)

\* the same without the test of self.initialized
execute_python_code_enter_unchecked(self, c) ==
  [pc |-> "awaiting", result |-> None,
   requests |-> <<GenerateContentRequest(c)>>]

\* the same submitting twice
execute_python_code_enter_twice(self, c) ==
  IF ~self.initialized
  THEN [pc |-> "returned", result |-> Some(NotInitializedResult),
        requests |-> <<>>]
  ELSE [pc |-> "awaiting", result |-> None,
        requests |-> <<GenerateContentRequest(c), GenerateContentRequest(c)>>]

\* the same with the safety validation of execute_code made here too
execute_python_code_enter_validated(self, c) ==
  IF ~self.initialized
  THEN [pc |-> "returned", result |-> Some(NotInitializedResult),
        requests |-> <<>>]
  ELSE IF ~validate_code_safety(c).is_safe
  THEN [pc |-> "returned",
        result |-> Some(BlockedResult(validate_code_safety(c).reason)),
        requests |-> <<>>]
  ELSE [pc |-> "awaiting", result |-> None,
        requests |-> <<GenerateContentRequest(c)>>]

\* execute_python_code up to the remote call: lines 132-163
execute_python_code_enter(self, c) ==
  IF ~self.initialized
  THEN [pc |-> "returned", result |-> Some(NotInitializedResult),
        requests |-> <<>>]
  ELSE [pc |-> "awaiting", result |-> None,
        requests |-> <<GenerateContentRequest(c)>>]

\* the same with the test of is_safe inverted
execute_code_inverted(c, self, v) ==
  IF v.is_safe
  THEN [pc |-> "returned", result |-> Some(BlockedResult(v.reason)),
        requests |-> <<>>]
  ELSE execute_python_code_enter(self, c)

\* execute_code from the verdict v on, up to the remote call: lines 283-292
execute_code_enter(c, self, v) ==
  IF ~v.is_safe
  THEN [pc |-> "returned", result |-> Some(BlockedResult(v.reason)),
        requests |-> <<>>]
  ELSE execute_python_code_enter(self, c)

\* the same with the operands exchanged
ElapsedTime_swapped(start, now) == start - now

\* time.time() - start_time, lines 165 and 224
ElapsedTime(start, now) == now - start

\* execute_python_code once the remote call ended as `ended`
execute_python_code_leave(c, ended, execution_time) ==
  ExceptException(
    IF ended.raises THEN ended
    ELSE ClassifyResponse(c, ended.value, execution_time),
    c, execution_time)

-----------------------------------------------------------------------------
(* generate_chart and what it calls, in function_tools.py and llm_utils.py *)

\* the code execute_code_with_dataframe passes to execute_code: the imports
\* and the dataframe, then the generated code
full_code(llm_code) ==
  <<"\nimport pandas as pd\n...\ndf = pd.DataFrame(df_data)\n\n# Execute the user's code\n">>
  \o llm_code \o <<"\n">>

create_error_figure(error_message) ==
  [title |-> <<"Chart Generation Error">>, text |-> error_message,
   color |-> "red"]

HtmlMarker == <<"Chart saved as HTML:">>

\* generate_simple_chart from the execution result on: lines 563-621 of
\* llm_utils.py.  html_exists: os.path.exists(html_file)
generate_simple_chart(result_, html_exists) ==
  IF result_.success
  THEN IF contains(result_.output, HtmlMarker) /\ html_exists
       THEN [title |-> <<"Chart Generation Successful">>,
             text |-> <<"Chart successfully generated!">>, color |-> "green"]
       ELSE [title |-> <<"Chart Generation - Code Executed">>,
             text |-> <<"Chart code executed successfully!">>, color |-> "blue"]
  ELSE create_error_figure(<<"Chart generation failed: ">> \o result_.error)

\* save_chart_file on a disk that takes the PNG ("ok"), has no PNG export
\* ("no_export": write_image raises and the error file is written), or
\* takes no file at all ("unwritable": the error file's open raises too)
save_chart_file(plotly_figure, disk) ==
  IF disk = "ok" THEN Return(<<"generated_charts/chart.png">>)
  ELSE IF disk = "no_export" THEN Return(<<"generated_charts/chart_error.txt">>)
  ELSE Raise(<<"[Errno 13] Permission denied">>)

\* the same with a figure that shows an error reported as a failure
generate_chart_strict(plotly_figure, saved) ==
  IF saved.raises
  THEN [chart_info |-> None, success |-> FALSE, error |-> Some(saved.value),
        png_path |-> None]
  ELSE IF plotly_figure[1].title = <<"Chart Generation Error">>
  THEN [chart_info |-> None, success |-> FALSE,
        error |-> Some(plotly_figure[1].text), png_path |-> None]
  ELSE [chart_info |-> Some([png_file |-> saved.value, success |-> TRUE]),
        success |-> TRUE, error |-> None, png_path |-> Some(saved.value)]

\* the record generate_chart returns, lines 124-153 of function_tools.py;
\* saved is what the steps up to save_chart_file did: the file name they
\* returned or the exception one of them raised
generate_chart(plotly_figure, saved) ==
  IF saved.raises
  THEN [chart_info |-> None, success |-> FALSE, error |-> Some(saved.value),
        png_path |-> None]
  ELSE [chart_info |-> Some([png_file |-> saved.value, success |-> TRUE]),
        success |-> TRUE, error |-> None, png_path |-> Some(saved.value)]

-----------------------------------------------------------------------------
(* Inputs *)

\* the clock advances by at most MaxElapsed during the remote call, and
\* time.time() at line 140 reads one of 0..MaxElapsed
MaxElapsed == 1

Elapsed == 0..MaxElapsed

Clock == 0..MaxElapsed

CodeFragments ==
  {dangerous_patterns[i] : i \in 1..Len(dangerous_patterns)}
  \cup {<<"E", "V", "A", "L", "(">>,
        <<"e", "v", "a", "l">>,
        <<"(">>,
        <<"'", "1", "+", "1", "'", ")">>,
        <<"p", "r", "i", "n", "t", "(", "2", "+", "2", ")">>}

RECURSIVE CodesOf(_)
CodesOf(k) ==
  IF k = 0 THEN {<<>>}
  ELSE {f \o c : f \in CodeFragments, c \in CodesOf(k - 1)}

Codes == UNION {CodesOf(k) : k \in 0..MaxChunks}

\* the codes a caller submits a second time
RepeatCodes == CodesOf(1)

SimpleCode == <<"p", "r", "i", "n", "t", "(", "2", "+", "2", ")">>

ProjectArgs == {None, Some(<<"arg-project">>)}

\* what the import of the module can leave
ImportStates == {
  [available |-> TRUE, project |-> <<"env-project">>, location |-> <<"europe-west4">>],
  [available |-> TRUE, project |-> <<"your-project-id">>, location |-> <<"us-central1">>],
  [available |-> FALSE, project |-> <<"your-project-id">>, location |-> <<"us-central1">>]}

\* str(e) of what generate_content raises
TransportErrors == {<<"503 Service Unavailable">>, <<>>}

Part(text, executable_code, code_execution_result) ==
  [text |-> text, executable_code |-> executable_code,
   code_execution_result |-> code_execution_result]

ExecutionResult(outcome, output) ==
  Some([outcome |-> outcome, output |-> output])

TextFour == <<"4", "\n">>

TextBuildFailed == <<"B", "u", "i", "l", "d", " ", "F", "A", "I", "L", "E", "D">>

TextTraceback == <<"T", "r", "a", "c", "e", "b", "a", "c", "k", ".", ".", ".">>

TagOk == Some(OUTCOME_OK)

TagFailed == Some(<<"O", "U", "T", "C", "O", "M", "E", "_", "F", "A", "I", "L", "E", "D">>)

Parts == {
  Part(Some(TextFour), None, None),
  Part(Some(TextBuildFailed), None, None),
  Part(Some(<<" ", "\n">>), None, None),
  Part(Some(<<>>), None, None),
  Part(None, Some([language |-> "PYTHON", code |-> SimpleCode]), None),
  Part(None, None, ExecutionResult(TagOk, Some(TextFour))),
  Part(None, None, ExecutionResult(TagOk, None)),
  Part(None, None, ExecutionResult(TagFailed, Some(TextTraceback))),
  Part(None, None, ExecutionResult(TagFailed, None)),
  Part(Some(TextBuildFailed), None, ExecutionResult(TagOk, Some(TextFour)))}

\* parts with every combination of the three fields set or not
MixedParts ==
  {Part(text, executable_code, code_execution_result) :
     text \in {None, Some(<<>>), Some(TextBuildFailed)},
     executable_code \in {None, Some([language |-> "PYTHON", code |-> SimpleCode])},
     code_execution_result \in {None, ExecutionResult(TagOk, Some(TextFour)),
                                ExecutionResult(TagFailed, None)}}

Candidate(parts) == [content |-> Some([parts |-> Some(parts)])]

\* a candidate without content (a blocked candidate)
MalformedCandidate == [content |-> None]

\* a response without candidates (a blocked prompt)
NoCandidates == [candidates |-> None]

\* The shape of a candidate list gives each candidate's number of parts,
\* Blocked for a candidate without content.
Blocked == -1

PartCount(size) == IF size = Blocked THEN 0 ELSE size

RECURSIVE PartsBefore(_, _)
\* the number of parts of the candidates before candidate number j
PartsBefore(shape, j) ==
  IF j = 1 THEN 0
  ELSE PartsBefore(shape, j - 1) + PartCount(shape[j - 1])

TotalParts(shape) == PartsBefore(shape, Len(shape) + 1)

\* the shapes of at most k candidates that hold at most n parts together
Shapes(k, n) ==
  {shape \in UNION {[1..j -> Blocked..n] : j \in 0..k} : TotalParts(shape) <= n}

\* the response of that shape whose parts are, in order, those of `parts`
Response(shape, parts) ==
  [candidates |-> Some(
     [j \in 1..Len(shape) |->
        IF shape[j] = Blocked THEN MalformedCandidate
        ELSE Candidate(SubSeq(parts, PartsBefore(shape, j) + 1,
                              PartsBefore(shape, j) + shape[j]))])]

\* the parts of the responses to a chart code
ChartParts ==
  Parts \cup {Part(Some(HtmlMarker \o <<" ", "c", ".", "h", "t", "m", "l">>),
                   None, None)}

DiskStates == {"ok", "no_export", "unwritable"}

\* str(e) of what generate_llm_response raises at line 534 of llm_utils.py,
\* before the try block of generate_simple_chart
StepErrors == {<<"503 Service Unavailable">>}

\* the threads that construct an executor of their own
Threads == {"t1", "t2"}

\* a thread that has not called the constructor yet
NewInstance ==
  [pc |-> "new", arg_project_id |-> None, arg_location |-> None,
   project_id |-> None, location |-> None, initialized |-> FALSE,
   client |-> None, error |-> None]

\* the arguments of VertexAiCodeExecutor(project_id, location)
ConstructorProjects == {None, Some(<<"proj-a">>), Some(<<"proj-b">>)}

ConstructorLocations == {None, Some(<<"us-central1">>), Some(<<"asia-east1">>)}

\* what genai.Client() raises: nothing, or an error with this str()
ClientErrors == {None, Some(<<"Your default credentials were not found">>)}

-----------------------------------------------------------------------------
(* The state machine *)

Init ==
  /\ \E m \in ImportStates :
       /\ VERTEX_AI_AVAILABLE = m.available
       /\ PROJECT_ID = m.project
       /\ LOCATION = m.location
  /\ environ = [GOOGLE_CLOUD_PROJECT |-> None, GOOGLE_CLOUD_LOCATION |-> None,
                GOOGLE_GENAI_USE_VERTEXAI |-> None]
  /\ pc = "idle"
  /\ code = <<>>
  /\ executor = None
  /\ verdict = None
  /\ requests = <<>>
  /\ remote = None
  /\ result = None
  /\ escaped = None
  /\ start_time = None
  /\ previous = None
  /\ instances = [t \in Threads |-> NewInstance]
  /\ chart = None

\* a caller calls execute_code(c, project_id); the call runs until it returns
\* or until the submission is with the remote; time.time() reads `now` at
\* line 140
ExecuteCode(c, project_id, client_raises, now) ==
  /\ pc = "idle"
  /\ LET effective_project_id == Or(project_id, Some(PROJECT_ID))
         made == VertexAiCodeExecutor(effective_project_id, Some(<<"us-central1">>),
                                      environ, client_raises)
         v == validate_code_safety(c)
         at == execute_code_enter(c, made.self, v)
     IN /\ code' = c
        /\ executor' = Some(made.self)
        /\ environ' = made.environ
        /\ verdict' = Some(v)
        /\ pc' = at.pc
        /\ result' = at.result
        /\ requests' = at.requests
        /\ start_time' = IF at.pc = "awaiting" THEN Some(now) ELSE None
  /\ remote' = None
  /\ escaped' = None
  /\ UNCHANGED <<VERTEX_AI_AVAILABLE, PROJECT_ID, LOCATION, previous, instances, chart>>

\* the same with an except clause that submits once more before it gives up
RemoteEnds_retry(ended, now) ==
  /\ pc = "awaiting"
  /\ remote' = Some(ended)
  /\ IF ended.raises /\ Len(requests) < 2
       THEN /\ requests' = Append(requests, GenerateContentRequest(code))
            /\ UNCHANGED <<pc, result, escaped, start_time>>
       ELSE /\ LET out == execute_python_code_leave(code, ended,
                                                    ElapsedTime(start_time[1], now))
               IN /\ result' = IF out.raises THEN None ELSE Some(out.value)
                  /\ escaped' = IF out.raises THEN Some(out.value) ELSE None
            /\ pc' = "returned"
            /\ start_time' = None
            /\ UNCHANGED requests
  /\ UNCHANGED <<VERTEX_AI_AVAILABLE, PROJECT_ID, LOCATION, environ, code,
                 executor, verdict, previous, instances, chart>>

\* the remote call ended as `ended` and time.time() now reads `now`:
\* execute_python_code, and with it execute_code, runs to its end
RemoteEnds(ended, now) ==
  /\ pc = "awaiting"
  /\ remote' = Some(ended)
  /\ LET out == execute_python_code_leave(code, ended,
                                          ElapsedTime(start_time[1], now))
     IN /\ result' = IF out.raises THEN None ELSE Some(out.value)
        /\ escaped' = IF out.raises THEN Some(out.value) ELSE None
  /\ pc' = "returned"
  /\ start_time' = None
  /\ UNCHANGED <<VERTEX_AI_AVAILABLE, PROJECT_ID, LOCATION, environ, code,
                 executor, verdict, requests, previous, instances, chart>>

\* generate_content returns the response
GenerateContentReturns(response, now) ==
  RemoteEnds(Return(response), now)

\* generate_content raises an error whose str() is message
GenerateContentRaises(message, now) ==
  RemoteEnds(Raise(message), now)

\* the caller has the record (or the exception) and drops the call's objects;
\* os.environ stays as the constructor left it
CallerContinues ==
  /\ pc = "returned"
  /\ pc' = "idle"
  /\ code' = <<>>
  /\ executor' = None
  /\ verdict' = None
  /\ requests' = <<>>
  /\ remote' = None
  /\ result' = None
  /\ escaped' = None
  /\ UNCHANGED <<VERTEX_AI_AVAILABLE, PROJECT_ID, LOCATION, environ,
                 start_time, previous, instances, chart>>

\* the caller has the record and keeps the code, what the remote did, and
\* the record's success and output before it calls again
CallerKeeps ==
  /\ pc = "returned"
  /\ result # None
  /\ previous = None
  /\ previous' = Some([code |-> code, remote |-> remote,
                       initialized |-> executor[1].initialized,
                       success |-> result[1].success,
                       output |-> result[1].output])
  /\ pc' = "idle"
  /\ code' = <<>>
  /\ executor' = None
  /\ verdict' = None
  /\ requests' = <<>>
  /\ remote' = None
  /\ result' = None
  /\ escaped' = None
  /\ UNCHANGED <<VERTEX_AI_AVAILABLE, PROJECT_ID, LOCATION, environ,
                 start_time, instances, chart>>

Next ==
  \/ /\ pc = "idle"
     /\ \E c \in Codes, p \in ProjectArgs, f \in BOOLEAN, now \in Clock :
          ExecuteCode(c, p, f, now)
  \/ /\ pc = "awaiting"
     /\ \E shape \in Shapes(1, 1), t \in Elapsed :
          \E parts \in [1..TotalParts(shape) -> Parts] :
            GenerateContentReturns(Response(shape, parts), start_time[1] + t)
  \/ /\ pc = "awaiting"
     /\ \E t \in Elapsed : GenerateContentReturns(NoCandidates, start_time[1] + t)
  \/ /\ pc = "awaiting"
     /\ \E m \in TransportErrors, t \in Elapsed : GenerateContentRaises(m, start_time[1] + t)
  \/ CallerContinues

Spec == Init /\ [][Next]_vars

\* one safe code against every response within the bounds
ClassifierNext ==
  \/ /\ pc = "idle"
     /\ \E f \in BOOLEAN, now \in Clock : ExecuteCode(SimpleCode, None, f, now)
  \/ /\ pc = "awaiting"
     /\ \E shape \in Shapes(MaxCandidates, MaxParts), t \in Elapsed :
          \E parts \in [1..TotalParts(shape) -> Parts] :
            GenerateContentReturns(Response(shape, parts), start_time[1] + t)
  \/ /\ pc = "awaiting"
     /\ \E t \in Elapsed : GenerateContentReturns(NoCandidates, start_time[1] + t)
  \/ /\ pc = "awaiting"
     /\ \E m \in TransportErrors, t \in Elapsed : GenerateContentRaises(m, start_time[1] + t)
  \/ CallerContinues

ClassifierSpec == Init /\ [][ClassifierNext]_vars

\* one safe code against the responses of one candidate whose parts have any
\* of their fields set
MixedNext ==
  \/ /\ pc = "idle"
     /\ \E f \in BOOLEAN, now \in Clock : ExecuteCode(SimpleCode, None, f, now)
  \/ /\ pc = "awaiting"
     /\ \E shape \in Shapes(1, MaxParts), t \in Elapsed :
          \E parts \in [1..TotalParts(shape) -> MixedParts] :
            GenerateContentReturns(Response(shape, parts), start_time[1] + t)
  \/ CallerContinues

MixedSpec == Init /\ [][MixedNext]_vars

\* a caller constructs an executor and calls its execute_python_code(c)
\* itself; the call runs until it returns or until the submission is with the
\* remote
ExecutePythonCode(c, project_id, client_raises, now) ==
  /\ pc = "idle"
  /\ LET made == VertexAiCodeExecutor(project_id, Some(<<"us-central1">>),
                                      environ, client_raises)
         at == execute_python_code_enter(made.self, c)
     IN /\ code' = c
        /\ executor' = Some(made.self)
        /\ environ' = made.environ
        /\ pc' = at.pc
        /\ result' = at.result
        /\ requests' = at.requests
        /\ start_time' = IF at.pc = "awaiting" THEN Some(now) ELSE None
  /\ verdict' = None
  /\ remote' = None
  /\ escaped' = None
  /\ UNCHANGED <<VERTEX_AI_AVAILABLE, PROJECT_ID, LOCATION, previous, instances, chart>>

\* callers of execute_python_code
DirectNext ==
  \/ /\ pc = "idle"
     /\ \E c \in Codes, p \in ProjectArgs, f \in BOOLEAN, now \in Clock :
          ExecutePythonCode(c, p, f, now)
  \/ /\ pc = "awaiting"
     /\ \E shape \in Shapes(1, 1), t \in Elapsed :
          \E parts \in [1..TotalParts(shape) -> Parts] :
            GenerateContentReturns(Response(shape, parts), start_time[1] + t)
  \/ /\ pc = "awaiting"
     /\ \E t \in Elapsed : GenerateContentReturns(NoCandidates, start_time[1] + t)
  \/ /\ pc = "awaiting"
     /\ \E m \in TransportErrors, t \in Elapsed : GenerateContentRaises(m, start_time[1] + t)
  \/ CallerContinues

DirectSpec == Init /\ [][DirectNext]_vars

\* a caller that calls again after it kept the result of a call; the client
\* is a stub, which genai.Client() always builds
RepeatNext ==
  \/ /\ pc = "idle"
     /\ \E c \in RepeatCodes, p \in ProjectArgs, now \in Clock :
          ExecuteCode(c, p, FALSE, now)
  \/ /\ pc = "awaiting"
     /\ \E shape \in Shapes(1, 1), t \in Elapsed :
          \E parts \in [1..TotalParts(shape) -> Parts] :
            GenerateContentReturns(Response(shape, parts), start_time[1] + t)
  \/ /\ pc = "awaiting"
     /\ \E t \in Elapsed : GenerateContentReturns(NoCandidates, start_time[1] + t)
  \/ /\ pc = "awaiting"
     /\ \E m \in TransportErrors, t \in Elapsed : GenerateContentRaises(m, start_time[1] + t)
  \/ CallerContinues
  \/ CallerKeeps

RepeatSpec == Init /\ [][RepeatNext]_vars

\* the same caller when genai.Client() may raise in any of the calls
SequenceNext ==
  \/ /\ pc = "idle"
     /\ \E c \in RepeatCodes, p \in ProjectArgs, f \in BOOLEAN, now \in Clock :
          ExecuteCode(c, p, f, now)
  \/ /\ pc = "awaiting"
     /\ \E shape \in Shapes(1, 1), t \in Elapsed :
          \E parts \in [1..TotalParts(shape) -> Parts] :
            GenerateContentReturns(Response(shape, parts), start_time[1] + t)
  \/ /\ pc = "awaiting"
     /\ \E t \in Elapsed : GenerateContentReturns(NoCandidates, start_time[1] + t)
  \/ /\ pc = "awaiting"
     /\ \E m \in TransportErrors, t \in Elapsed : GenerateContentRaises(m, start_time[1] + t)
  \/ CallerContinues
  \/ CallerKeeps

SequenceSpec == Init /\ [][SequenceNext]_vars

-----------------------------------------------------------------------------
(* The constructor, statement by statement, in threads that share os.environ *)

\* str(e) of the TypeError that os.environ[key] = None raises
EnvironTypeError == <<"str expected, not NoneType">>

\* thread t's constructor goes on as inst and leaves os.environ as env
ConstructorStep(t, inst, env) ==
  /\ instances' = [instances EXCEPT ![t] = inst]
  /\ environ' = env
  /\ UNCHANGED <<VERTEX_AI_AVAILABLE, PROJECT_ID, LOCATION, pc, code, executor,
                 verdict, requests, remote, result, escaped, start_time,
                 previous, chart>>

\* lines 88-94: the fields from the arguments, and the return when the
\* import failed
Begin(t, project_id, location) ==
  /\ instances[t].pc = "new"
  /\ ConstructorStep(t,
       [instances[t] EXCEPT
          !.arg_project_id = project_id,
          !.arg_location = location,
          !.project_id = Or(project_id, Some(PROJECT_ID)),
          !.location = IF location # Some(<<"us-central1">>) THEN location
                       ELSE Some(LOCATION),
          !.initialized = FALSE,
          !.pc = IF VERTEX_AI_AVAILABLE THEN "set_project" ELSE "done"],
       environ)

\* lines 117-119: the except clause
ExceptInit(inst, e) ==
  [inst EXCEPT !.error = Some(e), !.initialized = FALSE, !.pc = "done"]

\* line 102
SetProject(t) ==
  /\ instances[t].pc = "set_project"
  /\ IF instances[t].project_id = None
       THEN ConstructorStep(t, ExceptInit(instances[t], EnvironTypeError),
                            environ)
       ELSE ConstructorStep(t, [instances[t] EXCEPT !.pc = "set_location"],
              [environ EXCEPT !.GOOGLE_CLOUD_PROJECT = instances[t].project_id])

\* line 103
SetLocation(t) ==
  /\ instances[t].pc = "set_location"
  /\ IF instances[t].location = None
       THEN ConstructorStep(t, ExceptInit(instances[t], EnvironTypeError),
                            environ)
       ELSE ConstructorStep(t, [instances[t] EXCEPT !.pc = "set_use_vertexai"],
              [environ EXCEPT !.GOOGLE_CLOUD_LOCATION = instances[t].location])

\* line 104
SetUseVertexAI(t) ==
  /\ instances[t].pc = "set_use_vertexai"
  /\ ConstructorStep(t, [instances[t] EXCEPT !.pc = "client"],
       [environ EXCEPT !.GOOGLE_GENAI_USE_VERTEXAI = Some(<<"True">>)])

\* lines 107-116: genai.Client() takes the project and the location from
\* os.environ as it is now, or raises message
CreateClient(t, message) ==
  /\ instances[t].pc = "client"
  /\ IF message # None
       THEN ConstructorStep(t, ExceptInit(instances[t], message[1]), environ)
       ELSE ConstructorStep(t,
              [instances[t] EXCEPT
                 !.client = Some([project |-> environ.GOOGLE_CLOUD_PROJECT,
                                  location |-> environ.GOOGLE_CLOUD_LOCATION]),
                 !.initialized = TRUE,
                 !.pc = "done"],
              environ)

ConstructorNext ==
  \/ \E t \in Threads, p \in ConstructorProjects, l \in ConstructorLocations :
       Begin(t, p, l)
  \/ \E t \in Threads : SetProject(t)
  \/ \E t \in Threads : SetLocation(t)
  \/ \E t \in Threads : SetUseVertexAI(t)
  \/ \E t \in Threads, m \in ClientErrors : CreateClient(t, m)

ConstructorSpec == Init /\ [][ConstructorNext]_vars

-----------------------------------------------------------------------------
(* generate_chart *)

\* generate_chart has the execution result: generate_simple_chart makes its
\* figure, save_chart_file saves it, generate_chart returns
GenerateChartReturns(html_exists, disk) ==
  /\ pc = "returned"
  /\ result # None
  /\ LET plotly_figure == generate_simple_chart(result[1], html_exists)
         saved == save_chart_file(plotly_figure, disk)
     IN chart' = Some([figure |-> Some(plotly_figure),
                       raised |-> IF saved.raises THEN Some(saved.value) ELSE None,
                       returned |-> generate_chart(Some(plotly_figure), saved)])
  /\ pc' = "charted"
  /\ UNCHANGED <<VERTEX_AI_AVAILABLE, PROJECT_ID, LOCATION, environ, code,
                 executor, verdict, requests, remote, result, escaped,
                 start_time, previous, instances>>

\* the cleaned dataframe is empty: generate_simple_chart returns its error
\* figure without executing anything (lines 555-556 of llm_utils.py)
GenerateChartNoData(disk) ==
  /\ pc = "idle"
  /\ LET plotly_figure ==
           create_error_figure(<<"No valid data available after cleaning">>)
         saved == save_chart_file(plotly_figure, disk)
     IN chart' = Some([figure |-> Some(plotly_figure),
                       raised |-> IF saved.raises THEN Some(saved.value) ELSE None,
                       returned |-> generate_chart(Some(plotly_figure), saved)])
  /\ pc' = "charted"
  /\ UNCHANGED <<VERTEX_AI_AVAILABLE, PROJECT_ID, LOCATION, environ, code,
                 executor, verdict, requests, remote, result, escaped,
                 start_time, previous, instances>>

\* generate_llm_response raises before any code is executed, and the
\* exception reaches the except clause of generate_chart
GenerateChartRaises(message) ==
  /\ pc = "idle"
  /\ chart' = Some([figure |-> None, raised |-> Some(message),
                    returned |-> generate_chart(None, Raise(message))])
  /\ pc' = "charted"
  /\ UNCHANGED <<VERTEX_AI_AVAILABLE, PROJECT_ID, LOCATION, environ, code,
                 executor, verdict, requests, remote, result, escaped,
                 start_time, previous, instances>>

\* the caller of generate_chart has its record
ChartCallerContinues ==
  /\ pc = "charted"
  /\ pc' = "idle"
  /\ code' = <<>>
  /\ executor' = None
  /\ verdict' = None
  /\ requests' = <<>>
  /\ remote' = None
  /\ result' = None
  /\ escaped' = None
  /\ chart' = None
  /\ UNCHANGED <<VERTEX_AI_AVAILABLE, PROJECT_ID, LOCATION, environ,
                 start_time, previous, instances>>

ChartNext ==
  \/ /\ pc = "idle"
     /\ \E llm_code \in RepeatCodes, f \in BOOLEAN, now \in Clock :
          ExecuteCode(full_code(llm_code), None, f, now)
  \/ /\ pc = "awaiting"
     /\ \E shape \in Shapes(1, 1), t \in Elapsed :
          \E parts \in [1..TotalParts(shape) -> ChartParts] :
            GenerateContentReturns(Response(shape, parts), start_time[1] + t)
  \/ /\ pc = "awaiting"
     /\ \E m \in TransportErrors, t \in Elapsed : GenerateContentRaises(m, start_time[1] + t)
  \/ \E html_exists \in BOOLEAN, disk \in DiskStates :
       GenerateChartReturns(html_exists, disk)
  \/ \E disk \in DiskStates : GenerateChartNoData(disk)
  \/ \E message \in StepErrors : GenerateChartRaises(message)
  \/ ChartCallerContinues

ChartSpec == Init /\ [][ChartNext]_vars

-----------------------------------------------------------------------------
(* Properties *)

\* the lower-cased code contains a deny-listed substring
DenyListed(c) ==
  \E i \in 1..Len(dangerous_patterns) : contains(lower(c), dangerous_patterns[i])

Returned == pc = "returned" /\ result # None

\* generate_content returned a response, and the call has returned
Responded == Returned /\ remote # None /\ ~remote[1].raises

\* every candidate of the response has its content and parts: the response is
\* the sequence of candidates, each a sequence of parts, of the data model
WellFormed(response) ==
  /\ response.candidates # None
  /\ \A j \in 1..Len(response.candidates[1]) :
       response.candidates[1][j].content # None

\* the parts of a well-formed response
AllParts(response) ==
  UNION {{response.candidates[1][j].content[1].parts[1][i] :
            i \in 1..Len(response.candidates[1][j].content[1].parts[1])} :
         j \in 1..Len(response.candidates[1])}

\* the part is an execution-outcome record, and neither text nor code
OutcomeRecord(part) ==
  /\ ~Truthy(part.text)
  /\ part.executable_code = None
  /\ part.code_execution_result # None

TagEndsOk(part) ==
  endswith(str(part.code_execution_result[1].outcome), OUTCOME_OK)

HasIndicator(text) ==
  \E indicator \in error_indicators : contains(lower(text), indicator)

\* C1: a call of execute_code whose lower-cased code contains a deny-listed
\* substring returns at once, with success = false, and submits nothing.
C1_DenyListedRejected ==
  (pc # "idle" /\ DenyListed(code)) =>
    /\ pc = "returned"
    /\ result # None
    /\ result[1].success = FALSE
    /\ requests = <<>>

\* a Ready executor rejects a code that spells the pattern in upper case
C1_Witness ==
  /\ pc = "returned"
  /\ DenyListed(code)
  /\ ~contains(code, <<"e", "v", "a", "l", "(">>)
  /\ contains(code, <<"E", "V", "A", "L", "(">>)
  /\ executor[1].initialized
  /\ result[1].success = FALSE

\* C2: validate_code_safety says unsafe exactly when the lower-cased code
\* contains one of the four deny-listed substrings, whatever the executor is.
C2_VerdictIffDenyListed ==
  verdict # None => (verdict[1].is_safe = FALSE <=> DenyListed(code))

\* 'EVAL(' alone is unsafe, on an executor that is not initialized
C2_Witness ==
  /\ verdict # None
  /\ code = <<"E", "V", "A", "L", "(">>
  /\ verdict[1].is_safe = FALSE
  /\ ~executor[1].initialized

\* C3, as claimed: a call with a code free of deny-listed substrings makes
\* exactly one remote submission.
C3_Original ==
  (pc = "returned" /\ ~DenyListed(code)) => Len(requests) = 1

\* C3, amended: on an initialized executor, a call with a code free of
\* deny-listed substrings makes exactly one remote submission.
C3_ExactlyOneWhenReady ==
  (pc # "idle" /\ ~DenyListed(code) /\ executor[1].initialized) =>
    Len(requests) = 1

C3_Witness ==
  /\ pc = "returned"
  /\ ~DenyListed(code)
  /\ code # <<>>
  /\ executor[1].initialized
  /\ remote # None
  /\ Len(requests) = 1

\* C4: no exception leaves execute_code: whatever the code, the constructor
\* and the remote do, the call returns a record that has a success field.
C4_NothingRaised ==
  /\ escaped = None
  /\ pc = "returned" => (result # None /\ "success" \in DOMAIN result[1])

\* a response whose candidate has no content ends in a returned record
C4_Witness ==
  /\ Responded
  /\ ~WellFormed(remote[1].value)
  /\ result[1].success = FALSE

\* C5: in every returned record, success = true implies an empty error and
\* success = false implies a non-empty error.
C5_ErrorIffFailure ==
  Returned => (result[1].success <=> result[1].error = <<>>)

\* a transport error with an empty message still gives a non-empty error
C5_Witness ==
  /\ Returned
  /\ remote # None
  /\ remote[1].raises
  /\ remote[1].value = <<>>
  /\ result[1].error # <<>>

\* C6: a well-formed response with an execution-outcome record whose tag ends
\* with OUTCOME_OK gives success = true, whatever else the response holds.
C6_AnyOkSucceeds ==
  (/\ Responded
   /\ WellFormed(remote[1].value)
   /\ \E part \in AllParts(remote[1].value) :
        OutcomeRecord(part) /\ TagEndsOk(part)) =>
    result[1].success = TRUE

\* an OK outcome next to a text that holds an error indicator
C6_Witness ==
  /\ Responded
  /\ WellFormed(remote[1].value)
  /\ \E part \in AllParts(remote[1].value) :
       OutcomeRecord(part) /\ TagEndsOk(part)
  /\ \E part \in AllParts(remote[1].value) :
       Truthy(part.text) /\ HasIndicator(part.text[1])
  /\ result[1].success = TRUE

\* C7: a well-formed response with execution-outcome records none of whose
\* tags ends with OUTCOME_OK gives success = false, whatever its text is.
C7_NoOkFails ==
  (/\ Responded
   /\ WellFormed(remote[1].value)
   /\ \E part \in AllParts(remote[1].value) : OutcomeRecord(part)
   /\ \A part \in AllParts(remote[1].value) :
        OutcomeRecord(part) => ~TagEndsOk(part)) =>
    result[1].success = FALSE

\* a failed outcome next to a text without any error indicator
C7_Witness ==
  /\ Responded
  /\ WellFormed(remote[1].value)
  /\ \E part \in AllParts(remote[1].value) :
       OutcomeRecord(part) /\ ~TagEndsOk(part)
  /\ \A part \in AllParts(remote[1].value) :
       OutcomeRecord(part) => ~TagEndsOk(part)
  /\ \E part \in AllParts(remote[1].value) :
       Truthy(part.text) /\ ~HasIndicator(part.text[1])
  /\ result[1].output # <<>>
  /\ ~HasIndicator(result[1].output)
  /\ result[1].success = FALSE

\* C8: a well-formed response without execution-outcome records, with some
\* non-empty text and no error indicator in its lower-cased text, gives
\* success = true.
C8_CleanTextSucceeds ==
  (/\ Responded
   /\ WellFormed(remote[1].value)
   /\ \A part \in AllParts(remote[1].value) : ~OutcomeRecord(part)
   /\ \E part \in AllParts(remote[1].value) : Truthy(part.text)
   /\ \A part \in AllParts(remote[1].value) :
        Truthy(part.text) => ~HasIndicator(part.text[1])) =>
    result[1].success = TRUE

C8_Witness ==
  /\ Responded
  /\ WellFormed(remote[1].value)
  /\ \A part \in AllParts(remote[1].value) : ~OutcomeRecord(part)
  /\ \E part \in AllParts(remote[1].value) : part.text = Some(TextFour)
  /\ result[1].success = TRUE

\* C9: a well-formed response without execution-outcome records whose
\* lower-cased text contains an error indicator gives success = false.
C9_IndicatorFails ==
  (/\ Responded
   /\ WellFormed(remote[1].value)
   /\ \A part \in AllParts(remote[1].value) : ~OutcomeRecord(part)
   /\ \E part \in AllParts(remote[1].value) :
        Truthy(part.text) /\ HasIndicator(part.text[1])) =>
    result[1].success = FALSE

\* the indicator is spelled in upper case in the text
C9_Witness ==
  /\ Responded
  /\ WellFormed(remote[1].value)
  /\ \A part \in AllParts(remote[1].value) : ~OutcomeRecord(part)
  /\ \E part \in AllParts(remote[1].value) :
       /\ Truthy(part.text)
       /\ HasIndicator(part.text[1])
       /\ \A indicator \in error_indicators : ~contains(part.text[1], indicator)
  /\ result[1].success = FALSE

\* C10, as claimed: when the submission raises, the record has success =
\* false, an empty output, and the error's message as its error.
C10_Original ==
  (Returned /\ remote # None /\ remote[1].raises) =>
    /\ result[1].success = FALSE
    /\ result[1].output = <<>>
    /\ result[1].error = remote[1].value

\* C10, amended: when the submission raises, the record has success = false,
\* an empty output, and as its error the text "Code execution failed: "
\* followed by the error's message.
C10_TransportFailure ==
  (Returned /\ remote # None /\ remote[1].raises) =>
    /\ result[1].success = FALSE
    /\ result[1].output = <<>>
    /\ result[1].error = <<"Code execution failed: ">> \o remote[1].value

C10_Witness ==
  /\ Returned
  /\ remote # None
  /\ remote[1].raises
  /\ remote[1].value = <<"503 Service Unavailable">>
  /\ result[1].success = FALSE

\* the response holds an empty list of candidates
EmptyCandidates == Responded /\ remote[1].value.candidates = Some(<<>>)

\* C11, as claimed: an empty candidate list gives success = false, an empty
\* output and an empty error.
C11_Original ==
  EmptyCandidates =>
    /\ result[1].success = FALSE
    /\ result[1].output = <<>>
    /\ result[1].error = <<>>

\* C11, amended: an empty candidate list gives success = false, an empty
\* output and the fixed error of a classified failure, which is not the
\* "Code execution failed: " + message of a transport failure.
C11_EmptyCandidateList ==
  EmptyCandidates =>
    /\ result[1].success = FALSE
    /\ result[1].output = <<>>
    /\ result[1].error = <<"Code execution failed or produced errors">>
    /\ result[1].error[1] # "Code execution failed: "

C11_Witness ==
  /\ EmptyCandidates
  /\ result[1].success = FALSE
  /\ result[1].error # <<>>

\* C12, as claimed: on an executor that is not initialized every call, for any
\* code, returns success = false with the fixed 'not properly initialized'
\* error and submits nothing.
C12_Original ==
  (pc # "idle" /\ ~executor[1].initialized) =>
    /\ Returned
    /\ result[1].success = FALSE
    /\ result[1].error = NotInitializedResult.error
    /\ requests = <<>>

\* C12, amended: on an executor that is not initialized every call returns
\* success = false and submits nothing; the error is the fixed 'not properly
\* initialized' text for a code free of deny-listed substrings, and the
\* blocked-for-safety text for a code that contains one.
C12_UninitializedFails ==
  (pc # "idle" /\ ~executor[1].initialized) =>
    /\ Returned
    /\ result[1].success = FALSE
    /\ requests = <<>>
    /\ ~DenyListed(code) =>
         result[1].error = <<"VertexAI Code Executor not properly initialized. Please install google-cloud-aiplatform and configure authentication.">>
    /\ DenyListed(code) =>
         result[1].error[1] = "Code execution blocked for safety: "

\* the dependency is there, genai.Client() raised, the code is safe
C12_Witness ==
  /\ Returned
  /\ VERTEX_AI_AVAILABLE
  /\ ~executor[1].initialized
  /\ ~DenyListed(code)
  /\ code # <<>>
  /\ result[1].success = FALSE
  /\ requests = <<>>

\* the first pattern, in the order of the deny-list, that the code contains
FirstPattern(c) ==
  dangerous_patterns[
    CHOOSE i \in 1..Len(dangerous_patterns) :
      /\ contains(lower(c), dangerous_patterns[i])
      /\ \A j \in 1..(i - 1) : ~contains(lower(c), dangerous_patterns[j])]

\* C13: the error of a rejected call names the first pattern, in the order of
\* the deny-list, that the code contains; for eval('1+1') it contains 'eval('.
C13_ErrorNamesFirstPattern ==
  (Returned /\ DenyListed(code)) =>
    /\ result[1].error =
         <<"Code execution blocked for safety: ",
           "Potentially unsafe operation detected: ">> \o FirstPattern(code)
    /\ contains(result[1].error, FirstPattern(code))
    /\ code = <<"e", "v", "a", "l", "(", "'", "1", "+", "1", "'", ")">> =>
         contains(result[1].error, <<"e", "v", "a", "l", "(">>)

\* the code begins with eval( and goes on with __import__: the error names
\* __import__
C13_Witness ==
  /\ Returned
  /\ code = <<"e", "v", "a", "l", "(">> \o dangerous_patterns[1]
  /\ contains(result[1].error, dangerous_patterns[1])
  /\ ~contains(result[1].error, <<"e", "v", "a", "l", "(">>)

RECURSIVE FlatParts(_, _)
\* the parts of the candidates from number j on, in order
FlatParts(candidates, j) ==
  IF j > Len(candidates) THEN <<>>
  ELSE candidates[j].content[1].parts[1] \o FlatParts(candidates, j + 1)

RECURSIVE JoinLines(_, _)
\* the texts from number i on, each followed by a newline
JoinLines(texts, i) ==
  IF i > Len(texts) THEN <<>>
  ELSE texts[i] \o <<"\n">> \o JoinLines(texts, i + 1)

IsText(part) == Truthy(part.text)

HasOutput(part) ==
  OutcomeRecord(part) /\ Truthy(part.code_execution_result[1].output)

\* all the text parts in order, then all the outcome outputs in order
ExpectedCombined(response) ==
  LET flat == FlatParts(response.candidates[1], 1)
      texts == SelectSeq(flat, IsText)
      outs == SelectSeq(flat, HasOutput)
  IN JoinLines([i \in 1..Len(texts) |-> texts[i].text[1]], 1)
     \o JoinLines([i \in 1..Len(outs) |->
                     outs[i].code_execution_result[1].output[1]], 1)

\* the response of one candidate that holds one text part "4\n"
FourResponse ==
  [candidates |-> Some(<<Candidate(<<Part(Some(TextFour), None, None)>>)>>)]

\* C16: the output of a classified result is the combined text without its
\* leading and trailing whitespace; for print(2+2) and the one text "4\n" the
\* result is success = true with output "4".
C16_OutputStripped ==
  (Responded /\ WellFormed(remote[1].value)) =>
    LET combined == ExpectedCombined(remote[1].value)
        output == result[1].output
    IN /\ output # <<>> =>
            /\ output[1] \notin Whitespace
            /\ output[Len(output)] \notin Whitespace
       /\ \E i \in 0..Len(combined) :
            /\ SubSeq(combined, i + 1, i + Len(output)) = output
            /\ \A k \in 1..Len(combined) :
                 (k <= i \/ k > i + Len(output)) => combined[k] \in Whitespace
       /\ (code = SimpleCode /\ remote[1].value = FourResponse) =>
            (result[1].success = TRUE /\ output = <<"4">>)

C16_Witness ==
  /\ Responded
  /\ code = SimpleCode
  /\ remote[1].value = FourResponse
  /\ result[1].success = TRUE
  /\ result[1].output = <<"4">>

AllFields == {"success", "output", "error", "execution_time", "code_executed",
              "generated_code", "execution_results"}

\* C17: every returned record carries success, output, error, the execution
\* time, the submitted code, the generated code and the execution outcomes.
C17_AllFields ==
  Returned => AllFields \subseteq DOMAIN result[1]

\* C20: the output of a classified result is, stripped, all the non-empty text
\* parts in order, each with its newline, followed by the non-empty outputs of
\* all the outcome records in order.
C20_TextThenOutcomes ==
  (Responded /\ WellFormed(remote[1].value)) =>
    result[1].output = strip(ExpectedCombined(remote[1].value))

\* an outcome part with an output comes before a text part in the response
C20_Witness ==
  /\ Responded
  /\ WellFormed(remote[1].value)
  /\ LET flat == FlatParts(remote[1].value.candidates[1], 1)
     IN /\ Len(flat) = 2
        /\ HasOutput(flat[1])
        /\ IsText(flat[2])
        /\ result[1].output =
             strip(flat[2].text[1] \o <<"\n">>
                   \o flat[1].code_execution_result[1].output[1])

C15_Deterministic ==
  (/\ Returned
   /\ previous # None
   /\ previous[1].code = code
   /\ (previous[1].remote # None /\ remote # None) =>
        previous[1].remote = remote) =>
    /\ result[1].success = previous[1].success
    /\ result[1].output = previous[1].output

\* the same code answered by the same response, after the constructor of the
\* earlier call changed os.environ
C15_Witness ==
  /\ Returned
  /\ previous # None
  /\ previous[1].code = code
  /\ remote # None
  /\ previous[1].remote = remote
  /\ ~remote[1].raises
  /\ result[1].success = TRUE
  /\ result[1].output = previous[1].output
  /\ environ.GOOGLE_GENAI_USE_VERTEXAI # None

\* C18: under every interleaving of the constructors of two threads, the
\* client of an initialized executor is built from that executor's own
\* project and location.
C18_OwnConfiguration ==
  \A t \in Threads :
    instances[t].initialized =>
      /\ instances[t].client[1].project = instances[t].project_id
      /\ instances[t].client[1].location = instances[t].location

\* C19: an executor constructed with location=None has LOCATION as its
\* location, and its constructor does not fail on the location.
C19_LocationNoneUsesLOCATION ==
  \A t \in Threads :
    (instances[t].pc = "done" /\ instances[t].arg_location = None) =>
      /\ instances[t].location = Some(LOCATION)
      /\ instances[t].error # Some(EnvironTypeError)

\* the part is an executable-code fragment, and not text
IsCode(part) == ~Truthy(part.text) /\ part.executable_code # None

\* C21: for a response whose candidates all have their parts, the result's
\* generated code is the executable-code parts of all the candidates as
\* {language, code}, in the order met, and its execution results are the
\* outcome parts of all the candidates as {outcome, output}, in the order met.
C21_AllCandidatesWalked ==
  (Responded /\ WellFormed(remote[1].value)) =>
    LET flat == FlatParts(remote[1].value.candidates[1], 1)
        codes == SelectSeq(flat, IsCode)
        outcomes == SelectSeq(flat, OutcomeRecord)
    IN /\ result[1].generated_code =
            [i \in 1..Len(codes) |->
               [language |-> codes[i].executable_code[1].language,
                code |-> codes[i].executable_code[1].code]]
       /\ result[1].execution_results =
            [i \in 1..Len(outcomes) |->
               [outcome |-> outcomes[i].code_execution_result[1].outcome,
                output |-> outcomes[i].code_execution_result[1].output]]

\* the first candidate holds the code, the second its outcome
C21_Witness ==
  /\ Responded
  /\ WellFormed(remote[1].value)
  /\ Len(remote[1].value.candidates[1]) = 2
  /\ LET first == remote[1].value.candidates[1][1].content[1].parts[1]
         second == remote[1].value.candidates[1][2].content[1].parts[1]
     IN /\ Len(first) = 1 /\ IsCode(first[1])
        /\ Len(second) = 1 /\ OutcomeRecord(second[1])
  /\ Len(result[1].generated_code) = 1
  /\ Len(result[1].execution_results) = 1

\* C22: a call submits at most once on every path, and when the remote raised
\* the call has returned a failed result after that one submission.
C22_NoRetry ==
  /\ Len(requests) <= 1
  /\ (remote # None /\ remote[1].raises) =>
       /\ Returned
       /\ result[1].success = FALSE
       /\ requests = <<GenerateContentRequest(code)>>

\* the remote raised on the one submission
C22_Witness ==
  /\ Returned
  /\ remote # None
  /\ remote[1].raises
  /\ Len(requests) = 1
  /\ result[1].success = FALSE
  /\ result[1].output = <<>>

\* generate_content returned a response that was walked to its end, and the
\* result is success = false
ClassifiedFailure ==
  Responded /\ WellFormed(remote[1].value) /\ result[1].success = FALSE

\* the error is "Code execution failed: " followed by an exception's message
CarriesMessage ==
  /\ Returned
  /\ result[1].error # <<>>
  /\ result[1].error[1] = "Code execution failed: "

\* C23, as claimed: a classified failure has the one fixed error and keeps
\* the stripped combined text as its output; a transport failure has the
\* error with the exception's message and an empty output, and nothing but
\* a transport failure has such an error.
C23_Original ==
  /\ ClassifiedFailure =>
       /\ result[1].error = <<"Code execution failed or produced errors">>
       /\ result[1].output = strip(ExpectedCombined(remote[1].value))
  /\ (Returned /\ remote # None /\ remote[1].raises) =>
       (CarriesMessage /\ result[1].output = <<>>)
  /\ CarriesMessage => (remote # None /\ remote[1].raises)

\* C23, amended: a classified failure has the one fixed error and keeps the
\* stripped combined text as its output; an error with an exception's
\* message, together with an empty output, is what a transport failure
\* yields and also what a response without candidates, or with a candidate
\* without content, yields, and nothing else yields it.
C23_FixedErrorKeepsOutput ==
  /\ ClassifiedFailure =>
       /\ result[1].error = <<"Code execution failed or produced errors">>
       /\ result[1].output = strip(ExpectedCombined(remote[1].value))
  /\ (Returned /\ remote # None /\ remote[1].raises) =>
       (CarriesMessage /\ result[1].output = <<>>)
  /\ (Responded /\ ~WellFormed(remote[1].value)) =>
       (CarriesMessage /\ result[1].output = <<>>)
  /\ CarriesMessage =>
       /\ remote # None
       /\ remote[1].raises \/ ~WellFormed(remote[1].value)

\* a classified failure that keeps its text
C23_Witness ==
  /\ ClassifiedFailure
  /\ result[1].output = TextBuildFailed
  /\ result[1].error = <<"Code execution failed or produced errors">>

\* C24: execute_python_code called directly on an initialized executor with a
\* code that contains a deny-listed substring validates nothing and submits
\* that code to the remote.
C24_DirectCallSubmits ==
  (pc # "idle" /\ executor[1].initialized /\ DenyListed(code)) =>
    /\ verdict = None
    /\ requests = <<GenerateContentRequest(code)>>
    /\ contains(requests[1].contents, code)
    /\ Returned =>
         ~contains(result[1].error, <<"Code execution blocked for safety: ">>)

\* the remote ran a deny-listed code and the call succeeded
C24_Witness ==
  /\ Responded
  /\ executor[1].initialized
  /\ DenyListed(code)
  /\ Len(requests) = 1
  /\ result[1].success = TRUE

\* the part has no text, or an empty one, and no other field
EmptyPart(part) ==
  ~Truthy(part.text) /\ part.executable_code = None
  /\ part.code_execution_result = None

\* C25: a part counts as text when its text is non-empty, else as code when
\* it has executable code, else as an outcome when it has one, else as
\* nothing.  The lists, the output and success of the result are those of
\* the parts counted this way: generated code from the parts counted as
\* code, execution results from the parts counted as outcomes, and the
\* fields a part has beside the one it is counted for change nothing.
C25_OneKindPerPart ==
  (Responded /\ WellFormed(remote[1].value)) =>
    LET flat == FlatParts(remote[1].value.candidates[1], 1)
        texts == SelectSeq(flat, IsText)
        codes == SelectSeq(flat, IsCode)
        outcomes == SelectSeq(flat, OutcomeRecord)
        expected_results ==
          [i \in 1..Len(outcomes) |->
             [outcome |-> outcomes[i].code_execution_result[1].outcome,
              output |-> outcomes[i].code_execution_result[1].output]]
    IN /\ Len(texts) + Len(codes) + Len(outcomes)
            + Len(SelectSeq(flat, EmptyPart)) = Len(flat)
       /\ Len(result[1].generated_code) = Len(codes)
       /\ result[1].execution_results = expected_results
       /\ result[1].output = strip(ExpectedCombined(remote[1].value))
       /\ result[1].success =
            Success(JoinLines([i \in 1..Len(texts) |-> texts[i].text[1]], 1),
                    ExpectedCombined(remote[1].value), expected_results)

\* a part with the text "Build FAILED", a code and an OUTCOME_OK outcome is
\* the whole response: the outcome is dropped and success is false
C25_Witness ==
  /\ Responded
  /\ WellFormed(remote[1].value)
  /\ LET flat == FlatParts(remote[1].value.candidates[1], 1)
     IN /\ Len(flat) = 1
        /\ flat[1].text = Some(TextBuildFailed)
        /\ flat[1].executable_code # None
        /\ flat[1].code_execution_result = ExecutionResult(TagOk, Some(TextFour))
  /\ result[1].success = FALSE
  /\ result[1].generated_code = <<>>
  /\ result[1].execution_results = <<>>
  /\ result[1].output = TextBuildFailed

\* generate_content returned a response without a candidate list, or with a
\* candidate without content
Malformed == Responded /\ ~WellFormed(remote[1].value)

\* C26: a response without a candidate list, or with a candidate without
\* content, gives the record of a transport failure: success = false, the
\* error "Code execution failed: " followed by the exception's message, an
\* empty output whatever text the parts before held, and neither generated
\* code nor execution results.
C26_MalformedLikeTransport ==
  Malformed =>
    /\ result[1].success = FALSE
    /\ result[1].error \in
         {<<"Code execution failed: ", "'NoneType' object is not iterable">>,
          <<"Code execution failed: ", "'NoneType' object has no attribute 'parts'">>}
    /\ result[1].output = <<>>
    /\ DOMAIN result[1] =
         {"success", "error", "output", "execution_time", "code_executed"}

\* the first candidate holds the text "4\n", the second has no content
C26_Witness ==
  /\ Malformed
  /\ Len(remote[1].value.candidates[1]) = 2
  /\ remote[1].value.candidates[1][1] =
       Candidate(<<Part(Some(TextFour), None, None)>>)
  /\ remote[1].value.candidates[1][2] = MalformedCandidate
  /\ result[1].output = <<>>
  /\ result[1].success = FALSE

WhitespaceOnly(part) ==
  \A k \in 1..Len(part.text[1]) : part.text[1][k] \in Whitespace

\* C27: when the response holds no outcome record, text parts that are all
\* whitespace give success = true with an empty output and an empty error,
\* and no text part at all gives success = false.
C27_WhitespaceSucceeds ==
  (Responded /\ WellFormed(remote[1].value)) =>
    LET flat == FlatParts(remote[1].value.candidates[1], 1)
        texts == SelectSeq(flat, IsText)
    IN SelectSeq(flat, OutcomeRecord) = <<>> =>
         /\ (texts # <<>> /\ \A i \in 1..Len(texts) : WhitespaceOnly(texts[i])) =>
              /\ result[1].success = TRUE
              /\ result[1].output = <<>>
              /\ result[1].error = <<>>
         /\ texts = <<>> =>
              /\ result[1].success = FALSE
              /\ result[1].output = <<>>

\* the one part of the response is the text " \n"
C27_Witness ==
  /\ Responded
  /\ remote[1].value =
       [candidates |-> Some(<<Candidate(<<Part(Some(<<" ", "\n">>), None, None)>>)>>)]
  /\ result[1].success = TRUE
  /\ result[1].output = <<>>

\* C28: the executor of a call is initialized exactly when the dependency is
\* there and genai.Client() does not raise in the constructor of that very
\* call, whatever the calls before did and left; and from the constructor's
\* return to the end of the call the executor stays as it is.
C28_StateNotCarried ==
  [][/\ \A c \in RepeatCodes, p \in ProjectArgs, f \in BOOLEAN, now \in Clock :
          ExecuteCode(c, p, f, now) =>
            executor'[1].initialized = (VERTEX_AI_AVAILABLE /\ ~f)
     /\ (pc # "idle" /\ pc' # "idle") => executor' = executor]_vars

\* a call with a Ready executor after a call that found it Uninitialized
C28_Witness ==
  /\ Returned
  /\ previous # None
  /\ ~previous[1].initialized
  /\ executor[1].initialized
  /\ result[1].success = TRUE

\* C29: when generate_chart came to its end with an execution result of
\* success = false, the figure is the error figure that shows the result's
\* error, and unless saving raised the record generate_chart returned has
\* success = true and a file path; whenever generate_chart returned
\* success = false, a step raised, and the record's error is that
\* exception's message.
C29_FailedExecutionChartSucceeds ==
  pc = "charted" =>
    /\ (result # None /\ result[1].success = FALSE) =>
         /\ chart[1].figure =
              Some(create_error_figure(<<"Chart generation failed: ">>
                                       \o result[1].error))
         /\ chart[1].raised = None =>
              /\ chart[1].returned.success = TRUE
              /\ chart[1].returned.png_path # None
    /\ chart[1].returned.success = FALSE =>
         /\ chart[1].raised # None
         /\ chart[1].returned.error = chart[1].raised

\* the chart code was rejected for safety and generate_chart reports success
C29_Witness ==
  /\ pc = "charted"
  /\ result # None
  /\ result[1].success = FALSE
  /\ DenyListed(code)
  /\ chart[1].figure[1].title = <<"Chart Generation Error">>
  /\ chart[1].returned.success = TRUE

====
